---- MODULE Spec2Model ----
(***************************************************************************)
(* HorseModel (src/harb/analytics.py): a store of per-runner ratings that   *)
(* is updated race by race (fit, fit_race), queried (get_ratings, get_runs, *)
(* pwin_mc, pwin_trapz) and persisted (to_dict, from_dict).                 *)
(*                                                                         *)
(* Numbers are integers.  tau and draw_probability are held in tenths       *)
(* (0.1 is written 1).  The rating engine of the trueskill library is       *)
(* outside the repository: Rate / RateFails model its contract only.        *)
(***************************************************************************)
EXTENDS Integers, Sequences, FiniteSets, TLC

VARIABLES
    ts,              \* self._ts: the five hyperparameters
    ratings,         \* self._ratings: runner -> record, records created on access
    pc,              \* "idle", or "fit" while fit's loop over the races runs
    idx,             \* fit: position of the next race in sorted_races (enumerate)
    stats,           \* fit: stats['n_races']
    log_incremental, \* fit: whether a callback was passed
    nCallbacks,      \* fit: calls of log_incremental so far
    logs,            \* fit: values logged by logging.info so far
    ev,              \* the last operation: what was asked and how it ended
    ret,             \* the last operation's return value
    mc,              \* pwin_mc: the samples drawn and the ranks written over them
    used,            \* races consumed so far (bounds the history)
    fitHist,         \* history of the running fit (store at start, writes, counts)
    tally            \* history of completed races per runner

vars == <<ts, ratings, pc, idx, stats, log_incremental, nCallbacks, logs,
          ev, ret, mc, used, fitHist, tally>>

(***************************************************************************)
(* Bounds and constants                                                    *)
(***************************************************************************)
Runners == {"A", "B", "C"}

MaxRaces == 2

NTrials == 2

SampleVals == {0, 1, 2}

DEFAULT_MU == 0

DEFAULT_SIGMA == 8

DEFAULT_BETA == 4

DEFAULT_TAU == 1

DEFAULT_DRAW == 1

LogEvery == 100

ParamNames == {"mu", "sigma", "beta", "tau", "draw_probability"}

EntryFields == {"runner", "mu", "sigma", "n_races", "n_wins"}

(***************************************************************************)
(* Helpers                                                                 *)
(***************************************************************************)
Range(s) == {s[i] : i \in DOMAIN s}

\* The order in which a dict hands out its keys (items()): fixed per key set.
KeyRank(r) == CASE r = "A" -> 1 [] r = "B" -> 2 [] OTHER -> 3

RECURSIVE KeyOrder(_)
KeyOrder(S) ==
    IF S = {} THEN <<>>
    ELSE LET k == CHOOSE x \in S : \A y \in S : KeyRank(x) <= KeyRank(y)
         IN <<k>> \o KeyOrder(S \ {k})

EmptyStore == [r \in {} |-> 0]

(***************************************************************************)
(* Construction: __init__ and _create_ratings                              *)
(***************************************************************************)
Defaults ==
    [mu |-> DEFAULT_MU, sigma |-> DEFAULT_SIGMA, beta |-> DEFAULT_BETA,
     tau |-> DEFAULT_TAU, draw_probability |-> DEFAULT_DRAW]

\* HorseModel(**kwargs): a keyword that is not passed takes its default.
HorseModelTs(kwargs) ==
    [p \in ParamNames |-> IF p \in DOMAIN kwargs THEN kwargs[p] ELSE Defaults[p]]

\* self._ts.create_rating(): the prior of the environment.
CreateRating(env) == [mu |-> env["mu"], sigma |-> env["sigma"]]

\* The default factory of self._ratings.
DefaultRecord(env) == [rating |-> <<CreateRating(env)>>, n_races |-> 0, n_wins |-> 0]

\* What indexing self._ratings with every key of rs leaves in the mapping:
\* a missing key is inserted with the default record.
Touch(store, env, rs) ==
    [r \in DOMAIN store \cup rs |->
        IF r \in DOMAIN store THEN store[r] ELSE DefaultRecord(env)]

CustomKwargs ==
    [mu |-> 1, sigma |-> 4, beta |-> 2, tau |-> 2, draw_probability |-> 0]

InitKwargs == {<<>>, CustomKwargs}

NoEvent == [op |-> "init", arg |-> <<>>, outcome |-> "ok", index |-> 0,
            rateIn |-> <<>>, logged |-> FALSE]

NoMc == [runners |-> <<>>, nwins |-> 0, t |-> 0, column |-> <<>>, R |-> <<>>]

NoFit == [start |-> EmptyStore, lastWrite |-> EmptyStore, eligible |-> 0, seen |-> {}]

Init ==
    /\ \E kw \in InitKwargs : ts = HorseModelTs(kw)
    /\ ratings = EmptyStore
    /\ pc = "idle"
    /\ idx = 0
    /\ stats = 0
    /\ log_incremental = FALSE
    /\ nCallbacks = 0
    /\ logs = <<>>
    /\ ev = NoEvent
    /\ ret = <<>>
    /\ mc = NoMc
    /\ used = 0
    /\ fitHist = NoFit
    /\ tally = [clean |-> TRUE, runs |-> [r \in Runners |-> 0], wins |-> [r \in Runners |-> 0]]

(***************************************************************************)
(* The rating engine (trueskill.TrueSkill.rate), by contract: one new       *)
(* rating group per input group, in input order; a better rank raises the   *)
(* mean, a worse one lowers it, equal ranks are treated alike, and the      *)
(* deviation does not grow.  It rejects fewer than two groups and a list    *)
(* of ranks whose length is not the number of groups.                       *)
(***************************************************************************)
RateFails(rating_groups, ranks) ==
    Len(rating_groups) < 2 \/ Len(ranks) # Len(rating_groups)

Rate(rating_groups, ranks) ==
    [i \in 1..Len(rating_groups) |->
        LET old == rating_groups[i][1]
            beaten == Cardinality({j \in 1..Len(ranks) : ranks[j] > ranks[i]})
            lostTo == Cardinality({j \in 1..Len(ranks) : ranks[j] < ranks[i]})
        IN <<[mu |-> old.mu + beaten - lostTo,
              sigma |-> IF old.sigma > 1 THEN old.sigma - 1 ELSE old.sigma]>>]

(***************************************************************************)
(* Races                                                                   *)
(***************************************************************************)
\* A race is a dict with 'selection', 'ranking' and (when has_winners)
\* 'winners'.  The selection lists each participant once.
SelectionPool ==
    {<<>>, <<"A">>, <<"A", "B">>, <<"C", "A", "B">>}

\* Ranks per position: a strict order, its reverse, all but the first tied,
\* all tied.
Rankings(n) ==
    {[i \in 1..n |-> i - 1], [i \in 1..n |-> n - i],
     [i \in 1..n |-> IF i = 1 THEN 0 ELSE 1], [i \in 1..n |-> 0]}

BestRanked(sel, ranking) ==
    {sel[i] : i \in {j \in DOMAIN sel \cap DOMAIN ranking :
                        \A k \in DOMAIN ranking : ranking[j] <= ranking[k]}}

\* The winners a race may name: the best ranked, or (whatever the ranks
\* say) the last of the selection alone.
WinnerSets(sel, ranking) ==
    {BestRanked(sel, ranking)} \cup (IF Len(sel) > 0 THEN {{sel[Len(sel)]}} ELSE {})

MakeRace(sel, rk, has, w) ==
    [selection |-> sel, ranking |-> rk, has_winners |-> has, winners |-> w]

WellFormedRaces ==
    UNION {UNION {{MakeRace(sel, rk, TRUE, w) : w \in WinnerSets(sel, rk)}
                  : rk \in Rankings(Len(sel))} : sel \in SelectionPool}

\* A ranking one rank short of the selection, and a race without 'winners'.
MalformedRaces ==
    {MakeRace(sel, [i \in 1..(Len(sel) - 1) |-> 0], TRUE, {sel[1]}) :
        sel \in {x \in SelectionPool : Len(x) >= 1}}
    \cup {MakeRace(sel, [i \in 1..Len(sel) |-> i - 1], FALSE, {}) : sel \in SelectionPool}

RacePool == WellFormedRaces \cup MalformedRaces

(***************************************************************************)
(* The body shared by fit_race and fit's loop                              *)
(***************************************************************************)
\* [self._ratings[r]['rating'] for r in runners], read after the accesses
\* have inserted the missing records.
RatingGroups(store, runners) ==
    [i \in 1..Len(runners) |-> store[runners[i]].rating]

\* Variants of the write-back: one counts a win for every participant, one
\* leaves the old rating in place.
CountEveryWin(horse, new, won) ==
    [rating |-> new, n_races |-> horse.n_races + 1, n_wins |-> horse.n_wins + 1]

WriteSameRating(horse, new, won) ==
    [rating |-> horse.rating, n_races |-> horse.n_races + 1,
     n_wins |-> horse.n_wins + (IF won THEN 1 ELSE 0)]

\* horse['rating'] = new; horse['n_races'] += 1; if won: horse['n_wins'] += 1
ApplyUpdate(horse, new, won) ==
    [rating |-> new, n_races |-> horse.n_races + 1,
     n_wins |-> horse.n_wins + (IF won THEN 1 ELSE 0)]

\* The store after the loop over enumerate(runners) has run k iterations.
RECURSIVE UpdateLoop(_, _, _, _, _)
UpdateLoop(store, runners, new_ratings, winners, k) ==
    IF k = 0 THEN store
    ELSE LET s == UpdateLoop(store, runners, new_ratings, winners, k - 1)
             runner == runners[k]
         IN [s EXCEPT ![runner] = ApplyUpdate(s[runner], new_ratings[k], runner \in winners)]

\* The first iteration of the loop when race['winners'] raises KeyError:
\* the rating and n_races of the first runner are already written.
InterruptedLoop(store, runners, new_ratings) ==
    LET runner == runners[1]
    IN [store EXCEPT ![runner] = [@ EXCEPT !.rating = new_ratings[1],
                                           !.n_races = @ + 1]]

\* Rating groups, rate, write-back: the store it leaves and how it ended.
RaceBody(store, env, race) ==
    LET runners == race.selection
        touched == Touch(store, env, Range(runners))
        rating_groups == RatingGroups(touched, runners)
    IN IF RateFails(rating_groups, race.ranking)
       THEN [store |-> touched, outcome |-> "error", rateIn |-> rating_groups,
             new |-> <<>>]
       ELSE LET new_ratings == Rate(rating_groups, race.ranking)
            IN IF ~race.has_winners
               THEN [store |-> InterruptedLoop(touched, runners, new_ratings),
                     outcome |-> "error", rateIn |-> rating_groups, new |-> new_ratings]
               ELSE [store |-> UpdateLoop(touched, runners, new_ratings,
                                          race.winners, Len(runners)),
                     outcome |-> "ok", rateIn |-> rating_groups, new |-> new_ratings]

\* History: what a completed race adds to the per-runner counts.  The counts
\* are kept for histories of completed races on a model that started empty;
\* afterwards they are dropped.
Unclean == [clean |-> FALSE, runs |-> [r \in Runners |-> 0], wins |-> [r \in Runners |-> 0]]

TallyAfter(t, race, outcome) ==
    IF outcome = "ok" /\ t.clean
    THEN [clean |-> TRUE,
          runs |-> [r \in Runners |->
                      t.runs[r] + (IF r \in Range(race.selection) THEN 1 ELSE 0)],
          wins |-> [r \in Runners |->
                      t.wins[r] + (IF r \in Range(race.selection) /\ r \in race.winners
                                   THEN 1 ELSE 0)]]
    ELSE Unclean

(***************************************************************************)
(* fit_race                                                                *)
(***************************************************************************)
FitRace(race) ==
    /\ pc = "idle"
    /\ used < MaxRaces
    /\ LET body == RaceBody(ratings, ts, race)
       IN /\ ratings' = body.store
          /\ ev' = [op |-> "fit_race", arg |-> race, outcome |-> body.outcome,
                    index |-> 0, rateIn |-> body.rateIn, logged |-> FALSE]
          /\ ret' = <<>>
          /\ tally' = TallyAfter(tally, race, body.outcome)
    /\ used' = used + 1
    /\ fitHist' = NoFit
    /\ UNCHANGED <<ts, pc, idx, stats, log_incremental, nCallbacks, logs,
                   mc>>

(***************************************************************************)
(* fit                                                                     *)
(***************************************************************************)
\* Variant: races of two are skipped too.
SkipsPairs(runners) == Len(runners) < 3

\* if len(runners) < 2: continue
Skipped(runners) == Len(runners) < 2

\* The value of i when line 83 reads it: the loop over enumerate(runners)
\* has rebound it, so it is the last position of runners, not the race's.
IndexAtLog(race_index, runners) == Len(runners) - 1

\* if i % 100 == 0: logging.info(...)
LogDue(i) == i % LogEvery = 0

\* Variant: only the records that have run a race are counted.
FitStatsRaced(n_races, store) ==
    [n_races |-> n_races,
     n_runners |-> Cardinality({r \in DOMAIN store : store[r].n_races > 0})]

\* stats as returned: n_races as counted, n_runners = len(ratings).
FitStats(n_races, store) ==
    [n_races |-> n_races, n_runners |-> Cardinality(DOMAIN store)]

FitStart(cb) ==
    /\ pc = "idle"
    /\ pc' = "fit"
    /\ idx' = 0
    /\ stats' = 0
    /\ log_incremental' = cb
    /\ nCallbacks' = 0
    /\ logs' = <<>>
    /\ fitHist' = [start |-> ratings, lastWrite |-> EmptyStore, eligible |-> 0, seen |-> {}]
    /\ ev' = [op |-> "fit_start", arg |-> cb, outcome |-> "ok", index |-> 0,
              rateIn |-> <<>>, logged |-> FALSE]
    /\ ret' = <<>>
    /\ UNCHANGED <<ts, ratings, mc, used, tally>>

\* fit is over (it returned or raised): its locals are gone.
LocalsGone ==
    /\ idx' = 0
    /\ stats' = 0
    /\ log_incremental' = FALSE
    /\ nCallbacks' = 0
    /\ logs' = <<>>

\* One iteration of the loop over enumerate(sorted_races), on the race the
\* sequence yields next.
FitStep(race) ==
    /\ pc = "fit"
    /\ used < MaxRaces
    /\ used' = used + 1
    /\ LET runners == race.selection
           eligible == fitHist.eligible + (IF Len(runners) >= 2 THEN 1 ELSE 0)
       IN IF Skipped(runners)
          THEN /\ idx' = idx + 1
               /\ ev' = [op |-> "fit_step", arg |-> race, outcome |-> "skipped",
                         index |-> idx, rateIn |-> <<>>, logged |-> FALSE]
               /\ fitHist' = [fitHist EXCEPT !.eligible = eligible]
               /\ UNCHANGED <<ratings, pc, stats, log_incremental, nCallbacks, logs,
                              ret, tally>>
          ELSE LET body == RaceBody(ratings, ts, race)
                   i == IndexAtLog(idx, runners)
               IN /\ ratings' = body.store
                  /\ tally' = TallyAfter(tally, race, body.outcome)
                  /\ IF body.outcome = "error"
                     THEN /\ pc' = "idle"
                          /\ ev' = [op |-> "fit_step", arg |-> race, outcome |-> "error",
                                    index |-> idx, rateIn |-> body.rateIn, logged |-> FALSE]
                          /\ fitHist' = [fitHist EXCEPT !.eligible = eligible]
                          /\ ret' = <<>>
                          /\ LocalsGone
                     ELSE /\ idx' = idx + 1
                          /\ stats' = stats + 1
                          /\ nCallbacks' = nCallbacks + (IF log_incremental THEN 1 ELSE 0)
                          /\ logs' = IF LogDue(i) THEN Append(logs, i) ELSE logs
                          /\ ev' = [op |-> "fit_step", arg |-> race, outcome |-> "ok",
                                    index |-> idx, rateIn |-> body.rateIn,
                                    logged |-> LogDue(i)]
                          /\ fitHist' =
                               [start |-> fitHist.start,
                                lastWrite |->
                                    [r \in DOMAIN fitHist.lastWrite \cup Range(runners) |->
                                        IF r \in Range(runners)
                                        THEN body.new[CHOOSE k \in DOMAIN runners : runners[k] = r]
                                        ELSE fitHist.lastWrite[r]],
                                eligible |-> eligible,
                                seen |-> fitHist.seen \cup Range(runners)]
                          /\ UNCHANGED <<pc, ret, log_incremental>>
    /\ UNCHANGED <<ts, mc>>

\* The sequence is exhausted: stats['n_runners'] = len(ratings); return stats
FitReturn ==
    /\ pc = "fit"
    /\ pc' = "idle"
    /\ ret' = FitStats(stats, ratings)
    /\ ev' = [op |-> "fit", arg |-> log_incremental, outcome |-> "ok", index |-> idx,
              rateIn |-> <<>>, logged |-> FALSE]
    /\ LocalsGone
    /\ UNCHANGED <<ts, ratings, mc, used, fitHist, tally>>

(***************************************************************************)
(* Queries                                                                 *)
(***************************************************************************)
ReadLists == {<<>>, <<"C">>, <<"B", "A">>, <<"A", "A">>}

\* [self._ratings[x]['rating'][0] for x in runners]
GetRatingsRet(store, runners) ==
    [i \in 1..Len(runners) |-> store[runners[i]].rating[1]]

\* array([self._ratings[x]['n_races'] for x in runners])
GetRunsRet(store, runners) ==
    [i \in 1..Len(runners) |-> store[runners[i]].n_races]

ReadEvent(name, a, outcome) ==
    [op |-> name, arg |-> a, outcome |-> outcome, index |-> 0, rateIn |-> <<>>,
     logged |-> FALSE]

GetRatings(runners) ==
    /\ pc = "idle"
    /\ ratings' = Touch(ratings, ts, Range(runners))
    /\ ret' = GetRatingsRet(ratings', runners)
    /\ ev' = ReadEvent("get_ratings", runners, "ok")
    /\ fitHist' = NoFit
    /\ UNCHANGED <<ts, pc, idx, stats, log_incremental, nCallbacks, logs, mc, used, tally>>

GetRuns(runners) ==
    /\ pc = "idle"
    /\ ratings' = Touch(ratings, ts, Range(runners))
    /\ ret' = GetRunsRet(ratings', runners)
    /\ ev' = ReadEvent("get_runs", runners, "ok")
    /\ fitHist' = NoFit
    /\ UNCHANGED <<ts, pc, idx, stats, log_incremental, nCallbacks, logs, mc, used, tally>>

\* pwin_trapz: the ratings are fetched first; min() of no means raises.  The
\* integrals themselves are not computed here: ret keeps the vector's length.
PwinTrapz(runners) ==
    /\ pc = "idle"
    /\ ratings' = Touch(ratings, ts, Range(runners))
    /\ IF Len(runners) = 0
       THEN /\ ev' = ReadEvent("pwin_trapz", runners, "error")
            /\ ret' = <<>>
       ELSE /\ ev' = ReadEvent("pwin_trapz", runners, "ok")
            /\ ret' = [n |-> Len(runners)]
    /\ fitHist' = NoFit
    /\ UNCHANGED <<ts, pc, idx, stats, log_incremental, nCallbacks, logs, mc, used, tally>>

(***************************************************************************)
(* pwin_mc.  R is filled with samples, then the loop over the trials        *)
(* replaces one column after the other by ranks.  A column's samples are    *)
(* held from the step that ranks it: nothing reads them earlier.            *)
(***************************************************************************)
McLists == {<<>>, <<"A">>, <<"B", "A">>, <<"A", "A">>, <<"C", "A", "B">>}

NwinsPool == {0, 1, 2}

Perms(n) == {p \in [1..n -> 0..(n - 1)] : \A i, j \in 1..n : i # j => p[i] # p[j]}

\* argsort(-column): the competitors (numbered from 0) by descending sample;
\* the order among equal samples is the sort's.
IsArgsortDesc(ar, column) ==
    \A i, j \in 1..Len(ar) : i < j => column[ar[i] + 1] >= column[ar[j] + 1]

\* ar.index(x): the position (from 0) of x in ar.
IndexIn(ar, x) == (CHOOSE k \in 1..Len(ar) : ar[k] = x) - 1

\* Wrong way round: the competitor found at position x, instead of the
\* position of competitor x.
RanksByPosition(ar) == [x \in 1..Len(ar) |-> ar[x]]

\* [ar.index(x) for x in range(len(ar))]
RanksOf(ar) == [x \in 1..Len(ar) |-> IndexIn(ar, x - 1)]

\* np.sum(R < nwins, 1): per competitor, the trials in which it is scored
\* (the returned vector is this count over the number of trials).
Scored(R, nwins) ==
    [x \in 1..Len(R) |-> Cardinality({t \in 1..NTrials : R[x][t] < nwins})]

\* Lines 90-94: the ratings are fetched (get_ratings) and R is allocated.
McStart(runners, nwins) ==
    /\ pc = "idle"
    /\ pc' = "mc"
    /\ ratings' = Touch(ratings, ts, Range(runners))
    /\ mc' = [runners |-> runners, nwins |-> nwins, t |-> 0, column |-> <<>>,
              R |-> [x \in 1..Len(runners) |-> <<>>]]
    /\ ev' = ReadEvent("pwin_mc_start", [runners |-> runners, nwins |-> nwins], "ok")
    /\ ret' = <<>>
    /\ fitHist' = NoFit
    /\ UNCHANGED <<ts, idx, stats, log_incremental, nCallbacks, logs, used, tally>>

\* Lines 96-98, one trial: the column's samples are ranked and overwritten.
McTrial ==
    /\ pc = "mc"
    /\ mc.t < NTrials
    /\ LET n == Len(mc.runners)
       IN \E column \in [1..n -> SampleVals] :
          \E ar \in Perms(n) :
             /\ IsArgsortDesc(ar, column)
             /\ mc' = [mc EXCEPT !.t = @ + 1,
                                 !.column = column,
                                 !.R = [x \in 1..n |-> Append(mc.R[x], RanksOf(ar)[x])]]
    /\ ev' = ReadEvent("pwin_mc_trial", mc.t, "ok")
    /\ UNCHANGED <<ts, ratings, pc, idx, stats, log_incremental, nCallbacks, logs,
                   ret, used, fitHist, tally>>

\* Line 99
McReturn ==
    /\ pc = "mc"
    /\ mc.t = NTrials
    /\ pc' = "idle"
    /\ ret' = Scored(mc.R, mc.nwins)
    /\ ev' = ReadEvent("pwin_mc", [runners |-> mc.runners, nwins |-> mc.nwins], "ok")
    /\ UNCHANGED <<ts, ratings, idx, stats, log_incremental, nCallbacks, logs,
                   mc, used, fitHist, tally>>

(***************************************************************************)
(* to_dict and from_dict                                                   *)
(***************************************************************************)
\* Variant: the wins are not written out.
EntryWithoutWins(runner, horse) ==
    [runner |-> runner, mu |-> horse.rating[1].mu, sigma |-> horse.rating[1].sigma,
     n_races |-> horse.n_races, n_wins |-> 0]

\* One element of 'ratings' in the persisted dict.
ToDictEntry(runner, horse) ==
    [runner |-> runner, mu |-> horse.rating[1].mu, sigma |-> horse.rating[1].sigma,
     n_races |-> horse.n_races, n_wins |-> horse.n_wins]

ToDictOp(env, store) ==
    LET keys == KeyOrder(DOMAIN store)
    IN [ts |-> [p \in ParamNames |-> env[p]],
        ratings |-> [i \in 1..Len(keys) |-> ToDictEntry(keys[i], store[keys[i]])]]

\* Rating(mu, sigma)
Rating(mu, sigma) == [mu |-> mu, sigma |-> sigma]

\* HorseModel(**hm_dict['ts']) raises on a keyword it does not know; reading
\* r['runner'], r['mu'], ... raises on an entry that lacks the key.
FromDictFails(d) ==
    \/ \E k \in DOMAIN d.ts : k \notin ParamNames
    \/ \E i \in DOMAIN d.ratings : ~(EntryFields \subseteq DOMAIN d.ratings[i])

\* The mapping after the loop over hm_dict['ratings'] has run k iterations.
RECURSIVE LoadLoop(_, _)
LoadLoop(entries, k) ==
    IF k = 0 THEN EmptyStore
    ELSE LET s == LoadLoop(entries, k - 1)
             r == entries[k]
         IN [x \in DOMAIN s \cup {r["runner"]} |->
                IF x = r["runner"]
                THEN [rating |-> <<Rating(r["mu"], r["sigma"])>>,
                      n_races |-> r["n_races"], n_wins |-> r["n_wins"]]
                ELSE s[x]]

FromDictModel(d) ==
    [ts |-> HorseModelTs(d.ts), ratings |-> LoadLoop(d.ratings, Len(d.ratings))]

DropKey(f, k) == [x \in DOMAIN f \ {k} |-> f[x]]

\* The dicts handed to from_dict: d, and d with one field missing (a
\* hyperparameter, or a field of the last entry).
LoadInputs(d) ==
    {d}
    \cup {[d EXCEPT !.ts = DropKey(d.ts, k)] : k \in ParamNames}
    \cup UNION {{[d EXCEPT !.ratings[i] = DropKey(d.ratings[i], k)] : k \in EntryFields}
                : i \in DOMAIN d.ratings \cap {Len(d.ratings)}}

ToDict ==
    /\ pc = "idle"
    /\ ret' = ToDictOp(ts, ratings)
    /\ ev' = ReadEvent("to_dict", <<>>, "ok")
    /\ fitHist' = NoFit
    /\ UNCHANGED <<ts, ratings, pc, idx, stats, log_incremental, nCallbacks, logs,
                   mc, used, tally>>

\* hm = HorseModel.from_dict(d), on what to_dict gives for the model in use
\* or a damaged copy of it: the model in use becomes the loaded one.
FromDict(d) ==
    /\ pc = "idle"
    /\ IF FromDictFails(d)
       THEN /\ ev' = ReadEvent("from_dict", d, "error")
            /\ ret' = <<>>
            /\ UNCHANGED <<ts, ratings, tally>>
       ELSE /\ ev' = ReadEvent("from_dict", d, "ok")
            /\ ts' = FromDictModel(d).ts
            /\ ratings' = FromDictModel(d).ratings
            /\ ret' = FromDictModel(d)
            /\ tally' = Unclean
    /\ fitHist' = NoFit
    /\ UNCHANGED <<pc, idx, stats, log_incremental, nCallbacks, logs, mc, used>>

(***************************************************************************)
(* Specifications                                                          *)
(***************************************************************************)
\* Fitting, with queries in between.
Next ==
    \/ \E race \in RacePool : FitRace(race)
    \/ \E cb \in BOOLEAN : FitStart(cb)
    \/ \E race \in RacePool : FitStep(race)
    \/ FitReturn
    \/ \E rs \in ReadLists : GetRatings(rs)

Spec == Init /\ [][Next]_vars

\* Persisting and loading a model that races have filled.
SerRaces == {race \in RacePool : race.ranking = [i \in 1..Len(race.selection) |-> i - 1]}

NextSer ==
    \/ \E race \in SerRaces : FitRace(race)
    \/ ToDict
    \/ \E d \in LoadInputs(ToDictOp(ts, ratings)) : FromDict(d)

SpecSer == Init /\ [][NextSer]_vars

\* The win-probability estimators.
NextMC ==
    \/ \E rs \in McLists, nwins \in NwinsPool : McStart(rs, nwins)
    \/ McTrial
    \/ McReturn
    \/ \E rs \in ReadLists : PwinTrapz(rs)
    \/ \E rs \in ReadLists : GetRuns(rs)

SpecMC == Init /\ [][NextMC]_vars

(***************************************************************************)
(* Properties                                                              *)
(***************************************************************************)
RaceOps == {"fit_step", "fit_race"}

QueryOps == {"get_ratings", "get_runs", "pwin_trapz", "pwin_mc_start"}

\* The record a runner has before a race touches it: its own, or the
\* default one the first access creates.
RecordBefore(store, r) == IF r \in DOMAIN store THEN store[r] ELSE DefaultRecord(ts)

PositionOf(sel, r) == CHOOSE k \in DOMAIN sel : sel[k] = r

MinOf(a, b) == IF a < b THEN a ELSE b

RECURSIVE SumSeq(_)
SumSeq(q) == IF q = <<>> THEN 0 ELSE q[1] + SumSeq(Tail(q))

\* C1: a race whose processing fails leaves the store exactly as it was
\* before that race: no record added, no rating or counter changed.
C1_AllOrNothing ==
    [][(ev'.op \in RaceOps /\ ev'.outcome = "error") => ratings' = ratings]_vars

\* C2: a processed race updates each participant exactly once (rating
\* replaced by the engine's output at its position, n_races + 1, n_wins + 1
\* iff it is among the winners) and leaves every other record alone; so on a
\* model that started empty, after completed races only, n_races and n_wins
\* of each record are the numbers of completed races the runner ran and won.
C2_StepUpdatesOnce ==
    (ev'.op \in RaceOps /\ ev'.outcome = "ok") =>
        LET race == ev'.arg
            sel == race.selection
            new == Rate(ev'.rateIn, race.ranking)
        IN /\ DOMAIN ratings' = DOMAIN ratings \cup Range(sel)
           /\ \A r \in Range(sel) :
                /\ ratings'[r].rating = new[PositionOf(sel, r)]
                /\ ratings'[r].n_races = RecordBefore(ratings, r).n_races + 1
                /\ ratings'[r].n_wins = RecordBefore(ratings, r).n_wins
                                        + (IF r \in race.winners THEN 1 ELSE 0)
           /\ \A r \in DOMAIN ratings \ Range(sel) : ratings'[r] = ratings[r]

C2_CountsMatchHistory ==
    tally.clean =>
        \A r \in Runners :
            IF r \in DOMAIN ratings
            THEN ratings[r].n_races = tally.runs[r] /\ ratings[r].n_wins = tally.wins[r]
            ELSE tally.runs[r] = 0 /\ tally.wins[r] = 0

C2_UpdatedOncePerRace == [][C2_StepUpdatesOnce]_vars /\ []C2_CountsMatchHistory

C2_Witness ==
    /\ ev.op = "fit_step" /\ ev.outcome = "ok" /\ ev.index = 1
    /\ Len(ev.arg.selection) = 3
    /\ tally.clean
    /\ \E r \in DOMAIN ratings : ratings[r].n_races = 2 /\ ratings[r].n_wins = 1
    /\ \E r \in DOMAIN ratings : ratings[r].n_races = 1 /\ ratings[r].n_wins = 0

\* C3: fit takes the races in input order, and the rating it hands to the
\* engine for a participant is the one written by the latest earlier race of
\* this fit that contained it, else the one its record held when fit
\* started (the prior when it had none).
ExpectedInput(r) ==
    IF r \in DOMAIN fitHist.lastWrite THEN fitHist.lastWrite[r]
    ELSE IF r \in DOMAIN fitHist.start THEN fitHist.start[r].rating
    ELSE <<CreateRating(ts)>>

C3_LaterRacesSeeEarlier ==
    [][(ev'.op = "fit_step") =>
          /\ ev'.index = idx
          /\ ev'.outcome # "error" => idx' = idx + 1
          /\ ev'.outcome # "skipped" =>
                /\ Len(ev'.rateIn) = Len(ev'.arg.selection)
                /\ \A i \in 1..Len(ev'.arg.selection) :
                      ev'.rateIn[i] = ExpectedInput(ev'.arg.selection[i])]_vars

C3_Witness ==
    /\ pc = "fit" /\ ev.op = "fit_step" /\ ev.outcome = "ok" /\ ev.index = 1
    /\ fitHist.start = EmptyStore
    /\ \E i \in 1..Len(ev.rateIn) : ev.rateIn[i] # <<CreateRating(ts)>>
    /\ \E i \in 1..Len(ev.rateIn) : ev.rateIn[i] = <<CreateRating(ts)>>

\* C4: a race with fewer than 2 participants changes and creates no record,
\* triggers no callback and is not counted; the n_races fit returns is the
\* number of races of the input with at least 2 participants.
C4_SkipStep ==
    (ev'.op = "fit_step" /\ Len(ev'.arg.selection) < 2) =>
        /\ ev'.outcome = "skipped"
        /\ ratings' = ratings
        /\ nCallbacks' = nCallbacks
        /\ logs' = logs
        /\ stats' = stats
        /\ pc' = "fit"

C4_ReturnedCount ==
    (ev.op = "fit" /\ ev.outcome = "ok") => ret.n_races = fitHist.eligible

C4_SkipsShortRaces == [][C4_SkipStep]_vars /\ []C4_ReturnedCount

C4_Witness ==
    /\ ev.op = "fit" /\ ev.outcome = "ok" /\ ev.arg = TRUE
    /\ ev.index = 2
    /\ ret.n_races = 1

C6_QueriesLeaveStore ==
    [][(ev'.op \in QueryOps) =>
          /\ ratings' = ratings
          /\ ev'.op = "get_ratings" =>
                /\ Len(ret') = Len(ev'.arg)
                /\ \A i \in 1..Len(ev'.arg) :
                      ret'[i] = RecordBefore(ratings, ev'.arg[i]).rating[1]]_vars

MissingRequired(d) ==
    \/ ~(ParamNames \subseteq DOMAIN d.ts)
    \/ \E i \in DOMAIN d.ratings : ~(EntryFields \subseteq DOMAIN d.ratings[i])

C8_MissingFieldFails ==
    (ev.op = "from_dict" /\ MissingRequired(ev.arg)) => ev.outcome = "error"

\* C9: in every trial of pwin_mc the ranks written are a permutation of
\* 0..N-1; with pairwise distinct samples a competitor's rank is the number
\* of competitors with a strictly higher sample, so the highest sample gets
\* rank 0; exactly min(nwins, N) competitors are scored; and for nwins = 1
\* (N >= 1) the scores returned add up to the number of trials, i.e. the
\* returned vector sums to 1.
TrialRanks(t) == [x \in 1..Len(mc.runners) |-> mc.R[x][t]]

DistinctSamples(column) ==
    \A x, y \in DOMAIN column : x # y => column[x] # column[y]

C9_RanksFollowSamples ==
    LET n == Len(mc.runners)
    IN /\ (pc = "mc" /\ mc.t >= 1) =>
            LET rk == TrialRanks(mc.t)
                column == mc.column
            IN /\ {rk[x] : x \in 1..n} = 0..(n - 1)
               /\ DistinctSamples(column) =>
                    \A x \in 1..n :
                        rk[x] = Cardinality({y \in 1..n : column[y] > column[x]})
               /\ \A x \in 1..n :
                    (\A y \in 1..n : y # x => column[x] > column[y]) => rk[x] = 0
               /\ Cardinality({x \in 1..n : rk[x] < mc.nwins}) = MinOf(mc.nwins, n)
       /\ (ev.op = "pwin_mc") =>
            /\ Len(ret) = n
            /\ \A t \in 1..NTrials :
                  Cardinality({x \in 1..n : mc.R[x][t] < mc.nwins}) = MinOf(mc.nwins, n)
            /\ (mc.nwins = 1 /\ n >= 1) => SumSeq(ret) = NTrials

C9_Witness ==
    /\ ev.op = "pwin_mc"
    /\ mc.nwins = 1
    /\ Len(mc.runners) = 3
    /\ DistinctSamples(mc.column)
    /\ TrialRanks(mc.t) = <<1, 2, 0>>
    /\ mc.column[3] > mc.column[1] /\ mc.column[1] > mc.column[2]
    /\ SumSeq(ret) = NTrials

\* C10: a progress observation is emitted after a processed race exactly
\* when the race's position in the input is a multiple of 100.
C10_ProgressEveryHundred ==
    (ev.op = "fit_step" /\ ev.outcome = "ok") =>
        (ev.logged <=> (ev.index % LogEvery = 0))

====
